---- MODULE Spec2Model ----
(***************************************************************************)
(* Crystal field splitting visualizer: the energy model                    *)
(* (calculateSplitting), the ligand positioning of MetalComplexScene and   *)
(* the bar layout of OrbitalSplittingDiagram.                              *)
(*                                                                         *)
(* JavaScript numbers are modelled as exact rationals [n, d] (d > 0, in    *)
(* lowest terms); Math.sqrt(3) is modelled exactly in the field Q(sqrt 3). *)
(* Rounding of IEEE doubles is therefore not part of the model.            *)
(***************************************************************************)
EXTENDS Integers, Sequences, FiniteSets, TLC

VARIABLES geometryType, distance, ligandStrength, energies, prev,
          ligandPositions, diagramSize, bars,
          isDarkMode, orbitalStates, orbitalType, orbitalScale, surface,
          orbitalScales

\* the App shell: viewport, controls drawer and the mobile split resize
VARIABLES isMobile, isControlsDrawerOpen, effectPending, mobileSplitRatio,
          isSplitResizing, splitResizeStateRef, previousUserSelectRef,
          bodyUserSelect, windowListeners, mounted

\* the dependency lists stored with the memoized render values
VARIABLES memoDeps

shellVars == <<isMobile, isControlsDrawerOpen, effectPending, mobileSplitRatio,
               isSplitResizing, splitResizeStateRef, previousUserSelectRef,
               bodyUserSelect, windowListeners, mounted>>

vars == <<geometryType, distance, ligandStrength, energies, prev,
          ligandPositions, diagramSize, bars,
          isDarkMode, orbitalStates, orbitalType, orbitalScale, surface,
          orbitalScales, shellVars, memoDeps>>

(***************************************************************************)
(* Exact rational arithmetic (the JavaScript number type).                 *)
(***************************************************************************)
Abs(i) == IF i < 0 THEN 0 - i ELSE i

RECURSIVE GCD(_, _)
GCD(a, b) == IF b = 0 THEN a ELSE GCD(b, a % b)

Rat(n, d) ==
  LET s == IF d < 0 THEN 0 - 1 ELSE 1
      g == GCD(Abs(n), Abs(d))
  IN  [n |-> (s * n) \div g, d |-> (s * d) \div g]

RInt(i) == [n |-> i, d |-> 1]

RNeg(a) == [n |-> 0 - a.n, d |-> a.d]

RAdd(a, b) ==
  LET g == GCD(a.d, b.d)
      l == (a.d \div g) * b.d
  IN  Rat(a.n * (l \div a.d) + b.n * (l \div b.d), l)

RSub(a, b) == RAdd(a, RNeg(b))

\* cross-cancel before multiplying so that intermediate products stay small
RMul(a, b) ==
  LET g1 == GCD(Abs(a.n), b.d)
      g2 == GCD(Abs(b.n), a.d)
  IN  Rat((a.n \div g1) * (b.n \div g2), (a.d \div g2) * (b.d \div g1))

RDiv(a, b) == RMul(a, Rat(b.d, b.n))

\* a < b, decided on the continued-fraction expansions (no cross products)
RECURSIVE RLt(_, _)
RLt(a, b) ==
  LET qa == a.n \div a.d
      qb == b.n \div b.d
      ra == a.n % a.d
      rb == b.n % b.d
  IN  IF qa # qb THEN qa < qb
      ELSE IF rb = 0 THEN FALSE
      ELSE IF ra = 0 THEN TRUE
      ELSE RLt([n |-> b.d, d |-> rb], [n |-> a.d, d |-> ra])

RLe(a, b) == ~RLt(b, a)

RMax(a, b) == IF RLt(a, b) THEN b ELSE a

RMin(a, b) == IF RLt(b, a) THEN b ELSE a

RAbs(a) == [n |-> Abs(a.n), d |-> a.d]

RZero == RInt(0)

\* variant: inverse square instead of inverse cube
Pow3_square(x) == RMul(x, x)

\* Math.pow(x, 3)
Pow3(x) == RMul(x, RMul(x, x))

(***************************************************************************)
(* calculateSplitting                                                      *)
(***************************************************************************)
GeometryTypes == {"octahedral", "tetrahedral", "squarePlanar"}

\* variant: the interpolation runs the wrong way (grows with distance)
distanceScalerOf_rising(d) ==
  RAdd(Rat(5, 100), RMul(RDiv(RSub(d, RInt(1)), RInt(3)), Rat(95, 100)))

\* variant: the floor of the interpolation has the wrong sign
distanceScalerOf_negfloor(d) ==
  RAdd(Rat(0 - 5, 100), RMul(RDiv(RSub(RInt(4), d), RInt(3)), Rat(95, 100)))

\* variant: the slope that the source comment describes (distance 1 -> 0.95)
distanceScalerOf_comment(d) ==
  RAdd(Rat(5, 100), RMul(RDiv(RSub(RInt(4), d), RInt(3)), Rat(90, 100)))

distanceScalerOf(d) ==
  RAdd(Rat(5, 100), RMul(RDiv(RSub(RInt(4), d), RInt(3)), Rat(95, 100)))

\* variant: eg and t2g take each other's sign
OctahedralEnergies_swapped(base, distanceScaler) ==
  LET baseRise == RMul(RMul(base, distanceScaler), Rat(8, 10))
  IN  [eg        |-> RSub(baseRise, RMul(RMul(base, distanceScaler), Rat(3, 10))),
       t2g       |-> RAdd(baseRise, RMul(RMul(base, distanceScaler), Rat(3, 10))),
       splitting |-> RMul(RMul(base, distanceScaler), Rat(6, 10))]

\* variant: energies measured from the barycentre (eg +0.6, t2g -0.4)
OctahedralEnergies_barycentre(base, distanceScaler) ==
  [eg        |-> RMul(RMul(base, distanceScaler), Rat(6, 10)),
   t2g       |-> RNeg(RMul(RMul(base, distanceScaler), Rat(4, 10))),
   splitting |-> RMul(base, distanceScaler)]

OctahedralEnergies(base, distanceScaler) ==
  LET baseRise == RMul(RMul(base, distanceScaler), Rat(8, 10))
  IN  [eg        |-> RAdd(baseRise, RMul(RMul(base, distanceScaler), Rat(3, 10))),
       t2g       |-> RSub(baseRise, RMul(RMul(base, distanceScaler), Rat(3, 10))),
       splitting |-> RMul(RMul(base, distanceScaler), Rat(6, 10))]

\* variant: dxy is raised above dx2y2
SquarePlanarEnergies_dxyhigh(base, distanceScaler) ==
  LET baseRise == RMul(RMul(base, distanceScaler), Rat(6, 10))
  IN  [dx2y2     |-> RAdd(baseRise, RMul(RMul(base, distanceScaler), Rat(4, 10))),
       dxy       |-> RAdd(baseRise, RMul(RMul(base, distanceScaler), Rat(45, 100))),
       dz2       |-> RAdd(baseRise, RMul(RMul(base, distanceScaler), Rat(1, 10))),
       dxz       |-> RSub(baseRise, RMul(RMul(base, distanceScaler), Rat(5, 10))),
       dyz       |-> RSub(baseRise, RMul(RMul(base, distanceScaler), Rat(5, 10))),
       splitting |-> RMul(RMul(base, distanceScaler), Rat(9, 10))]

SquarePlanarEnergies(base, distanceScaler) ==
  LET baseRise == RMul(RMul(base, distanceScaler), Rat(6, 10))
  IN  [dx2y2     |-> RAdd(baseRise, RMul(RMul(base, distanceScaler), Rat(4, 10))),
       dxy       |-> RAdd(baseRise, RMul(RMul(base, distanceScaler), Rat(25, 100))),
       dz2       |-> RAdd(baseRise, RMul(RMul(base, distanceScaler), Rat(1, 10))),
       dxz       |-> RSub(baseRise, RMul(RMul(base, distanceScaler), Rat(5, 10))),
       dyz       |-> RSub(baseRise, RMul(RMul(base, distanceScaler), Rat(5, 10))),
       splitting |-> RMul(RMul(base, distanceScaler), Rat(9, 10))]

\* variant: the octahedral ordering is kept (t2 below e)
TetrahedralEnergies_octorder(base, distanceScaler) ==
  LET baseRise == RMul(RMul(base, distanceScaler), Rat(7, 10))
  IN  [t2        |-> RSub(baseRise, RMul(RMul(base, distanceScaler), Rat(15, 100))),
       e         |-> RAdd(baseRise, RMul(RMul(base, distanceScaler), Rat(15, 100))),
       splitting |-> RMul(RMul(base, distanceScaler), Rat(3, 10))]

TetrahedralEnergies(base, distanceScaler) ==
  LET baseRise == RMul(RMul(base, distanceScaler), Rat(7, 10))
  IN  [t2        |-> RAdd(baseRise, RMul(RMul(base, distanceScaler), Rat(15, 100))),
       e         |-> RSub(baseRise, RMul(RMul(base, distanceScaler), Rat(15, 100))),
       splitting |-> RMul(RMul(base, distanceScaler), Rat(3, 10))]

\* the value of a function that falls off its end without a return
Undefined == [undefined |-> TRUE]

\* variant: the last branch is a plain else, so any other geometry is
\* treated as tetrahedral
calculateSplitting_elsetetrahedral(geometry, d, strength) ==
  LET distanceEffect == RDiv(RInt(1), Pow3(d))
      base           == RMul(strength, distanceEffect)
      distanceScaler == distanceScalerOf(d)
  IN  IF geometry = "octahedral" THEN OctahedralEnergies(base, distanceScaler)
      ELSE IF geometry = "squarePlanar" THEN SquarePlanarEnergies(base, distanceScaler)
      ELSE TetrahedralEnergies(base, distanceScaler)

\* variant: base does not take the ligand strength into account
calculateSplitting_nostrength(geometry, d, strength) ==
  LET distanceEffect == RDiv(RInt(1), Pow3(d))
      base           == distanceEffect
      distanceScaler == distanceScalerOf(d)
  IN  IF geometry = "octahedral" THEN OctahedralEnergies(base, distanceScaler)
      ELSE IF geometry = "squarePlanar" THEN SquarePlanarEnergies(base, distanceScaler)
      ELSE IF geometry = "tetrahedral" THEN TetrahedralEnergies(base, distanceScaler)
      ELSE Undefined

\* variant: the two-geometry chain, without a tetrahedral branch
calculateSplitting_notetrahedral(geometry, d, strength) ==
  LET distanceEffect == RDiv(RInt(1), Pow3(d))
      base           == RMul(strength, distanceEffect)
      distanceScaler == distanceScalerOf(d)
  IN  IF geometry = "octahedral" THEN OctahedralEnergies(base, distanceScaler)
      ELSE IF geometry = "squarePlanar" THEN SquarePlanarEnergies(base, distanceScaler)
      ELSE Undefined

calculateSplitting(geometry, d, strength) ==
  LET distanceEffect == RDiv(RInt(1), Pow3(d))
      base           == RMul(strength, distanceEffect)
      distanceScaler == distanceScalerOf(d)
  IN  IF geometry = "octahedral" THEN OctahedralEnergies(base, distanceScaler)
      ELSE IF geometry = "squarePlanar" THEN SquarePlanarEnergies(base, distanceScaler)
      ELSE IF geometry = "tetrahedral" THEN TetrahedralEnergies(base, distanceScaler)
      ELSE Undefined

(***************************************************************************)
(* Inputs of the energy model                                              *)
(***************************************************************************)
MaxDistSteps == 14

MaxStrength == 10

\* distances 0.5, 1.0, ... (in Angstrom), beyond the slider's 1.0 .. 4.0
Distances == { Rat(k, 2) : k \in 1..MaxDistSteps }

Strengths == { RInt(s) : s \in 1..MaxStrength }

Snapshot == [geometryType |-> geometryType, distance |-> distance,
             ligandStrength |-> ligandStrength, energies |-> energies]

NoScene == <<>>

NoSize == [width |-> RZero, height |-> RZero]

NoBars == <<>>

NoSurface == <<>>

OrbitalKeys == {"dz2", "dx2y2", "dxy", "dxz", "dyz"}

\* the initial orbitalStates of App: every orbital visible
AllVisible == [o \in OrbitalKeys |-> TRUE]

\* the initial orbitalScales of App
InitialScales == [o \in OrbitalKeys |-> IF o = "dz2" THEN Rat(6, 10) ELSE RInt(1)]

\* no memo has been computed
NoDeps == <<>>

\* the initial state of the App shell on a desktop viewport
ShellInitial ==
  /\ isMobile = FALSE
  /\ isControlsDrawerOpen = FALSE
  /\ effectPending = FALSE
  /\ mobileSplitRatio = Rat(55, 100)
  /\ isSplitResizing = FALSE
  /\ splitResizeStateRef = [startY |-> RZero, startRatio |-> Rat(55, 100),
                            containerHeight |-> RInt(1)]
  /\ previousUserSelectRef = ""
  /\ bodyUserSelect = ""
  /\ windowListeners = {}
  /\ mounted = TRUE

(***************************************************************************)
(* The energy memo of OrbitalSplittingDiagram: recomputed whenever one of  *)
(* geometryType, distance, ligandStrength changes.                         *)
(***************************************************************************)
InitEnergy ==
  /\ isDarkMode = TRUE
  /\ orbitalStates = AllVisible
  /\ orbitalType = "dz2"
  /\ orbitalScale = RInt(1)
  /\ surface = NoSurface
  /\ orbitalScales = InitialScales
  /\ ShellInitial
  /\ memoDeps = NoDeps
  /\ geometryType \in GeometryTypes
  /\ distance \in Distances
  /\ ligandStrength \in Strengths
  /\ energies = calculateSplitting(geometryType, distance, ligandStrength)
  /\ prev = [geometryType |-> geometryType, distance |-> distance,
             ligandStrength |-> ligandStrength, energies |-> energies]
  /\ ligandPositions = NoScene
  /\ diagramSize = NoSize
  /\ bars = NoBars

EnergySetGeometry(g) ==
  /\ UNCHANGED <<isDarkMode, orbitalStates, orbitalType, orbitalScale, surface,
                 orbitalScales, shellVars, memoDeps>>
  /\ g # geometryType
  /\ prev' = Snapshot
  /\ geometryType' = g
  /\ energies' = calculateSplitting(g, distance, ligandStrength)
  /\ UNCHANGED <<distance, ligandStrength, ligandPositions, diagramSize, bars>>

EnergySetDistance(d) ==
  /\ UNCHANGED <<isDarkMode, orbitalStates, orbitalType, orbitalScale, surface,
                 orbitalScales, shellVars, memoDeps>>
  /\ d # distance
  /\ prev' = Snapshot
  /\ distance' = d
  /\ energies' = calculateSplitting(geometryType, d, ligandStrength)
  /\ UNCHANGED <<geometryType, ligandStrength, ligandPositions, diagramSize, bars>>

EnergySetStrength(s) ==
  /\ UNCHANGED <<isDarkMode, orbitalStates, orbitalType, orbitalScale, surface,
                 orbitalScales, shellVars, memoDeps>>
  /\ s # ligandStrength
  /\ prev' = Snapshot
  /\ ligandStrength' = s
  /\ energies' = calculateSplitting(geometryType, distance, s)
  /\ UNCHANGED <<geometryType, distance, ligandPositions, diagramSize, bars>>

NextEnergy ==
  \/ \E g \in GeometryTypes : EnergySetGeometry(g)
  \/ \E d \in Distances : EnergySetDistance(d)
  \/ \E s \in Strengths : EnergySetStrength(s)

SpecEnergy == InitEnergy /\ [][NextEnergy]_vars

(***************************************************************************)
(* Numbers of the form a + b*sqrt(3), a and b rational: the values that    *)
(* ligand coordinates take (getTetrahedralPositions divides by sqrt(3)).   *)
(***************************************************************************)
SRat(r) == [a |-> r, b |-> RZero]

\* Math.sqrt(3)
Sqrt3 == [a |-> RZero, b |-> RInt(1)]

SNeg(x) == [a |-> RNeg(x.a), b |-> RNeg(x.b)]

SAdd(x, y) == [a |-> RAdd(x.a, y.a), b |-> RAdd(x.b, y.b)]

SMul(x, y) ==
  [a |-> RAdd(RMul(x.a, y.a), RMul(RInt(3), RMul(x.b, y.b))),
   b |-> RAdd(RMul(x.a, y.b), RMul(x.b, y.a))]

\* x / y = x * conj(y) / (y.a^2 - 3 y.b^2)
SDiv(x, y) ==
  LET nrm == RSub(RMul(y.a, y.a), RMul(RInt(3), RMul(y.b, y.b)))
      num == SMul(x, [a |-> y.a, b |-> RNeg(y.b)])
  IN  [a |-> RDiv(num.a, nrm), b |-> RDiv(num.b, nrm)]

SZero == SRat(RZero)

Dot(p, q) == SAdd(SAdd(SMul(p[1], q[1]), SMul(p[2], q[2])), SMul(p[3], q[3]))

NormSq(p) == Dot(p, p)

(***************************************************************************)
(* Ligand positions (MetalComplexScene)                                    *)
(***************************************************************************)
\* variant: the -y ligand is placed on +y a second time
getOctahedralPositions_dup(d) ==
  <<
    <<SRat(d), SZero, SZero>>,
    <<SNeg(SRat(d)), SZero, SZero>>,
    <<SZero, SRat(d), SZero>>,
    <<SZero, SRat(d), SZero>>,
    <<SZero, SZero, SRat(d)>>,
    <<SZero, SZero, SNeg(SRat(d))>>
  >>

getOctahedralPositions(d) ==
  <<
    <<SRat(d), SZero, SZero>>,
    <<SNeg(SRat(d)), SZero, SZero>>,
    <<SZero, SRat(d), SZero>>,
    <<SZero, SNeg(SRat(d)), SZero>>,
    <<SZero, SZero, SRat(d)>>,
    <<SZero, SZero, SNeg(SRat(d))>>
  >>

\* variant: the vertices (1,1,1), ... are scaled by distance, not normalised
getTetrahedralPositions_unnormalised(d) ==
  LET scale == SRat(d)
  IN  <<
        <<scale, scale, scale>>,
        <<scale, SNeg(scale), SNeg(scale)>>,
        <<SNeg(scale), scale, SNeg(scale)>>,
        <<SNeg(scale), SNeg(scale), scale>>
      >>

\* variant: the fourth vertex is (-1,-1,-1), which is not a tetrahedron vertex
getTetrahedralPositions_badvertex(d) ==
  LET scale == SDiv(SRat(d), Sqrt3)
  IN  <<
        <<scale, scale, scale>>,
        <<scale, SNeg(scale), SNeg(scale)>>,
        <<SNeg(scale), scale, SNeg(scale)>>,
        <<SNeg(scale), SNeg(scale), SNeg(scale)>>
      >>

getTetrahedralPositions(d) ==
  LET scale == SDiv(SRat(d), Sqrt3)
  IN  <<
        <<scale, scale, scale>>,
        <<scale, SNeg(scale), SNeg(scale)>>,
        <<SNeg(scale), scale, SNeg(scale)>>,
        <<SNeg(scale), SNeg(scale), scale>>
      >>

getSquarePlanarPositions(d) ==
  <<
    <<SRat(d), SZero, SZero>>,
    <<SNeg(SRat(d)), SZero, SZero>>,
    <<SZero, SRat(d), SZero>>,
    <<SZero, SNeg(SRat(d)), SZero>>
  >>

\* the ligandPositions memo of MetalComplexScene
getLigandPositions(g, d) ==
  IF g = "octahedral" THEN getOctahedralPositions(d)
  ELSE IF g = "tetrahedral" THEN getTetrahedralPositions(d)
  ELSE getSquarePlanarPositions(d)

MaxSceneTenths == 45

\* distances 0.1, 0.2, ... (in Angstrom)
SceneDistances == { Rat(k, 10) : k \in 1..MaxSceneTenths }

NoEnergies == <<>>

InitScene ==
  /\ isDarkMode = TRUE
  /\ orbitalStates = AllVisible
  /\ orbitalType = "dz2"
  /\ orbitalScale = RInt(1)
  /\ surface = NoSurface
  /\ orbitalScales = InitialScales
  /\ ShellInitial
  /\ memoDeps = NoDeps
  /\ geometryType \in GeometryTypes
  /\ distance \in SceneDistances
  /\ ligandPositions = getLigandPositions(geometryType, distance)
  /\ ligandStrength = RZero
  /\ energies = NoEnergies
  /\ prev = NoEnergies
  /\ diagramSize = NoSize
  /\ bars = NoBars

SceneSetGeometry(g) ==
  /\ UNCHANGED <<isDarkMode, orbitalStates, orbitalType, orbitalScale, surface,
                 orbitalScales, shellVars, memoDeps>>
  /\ g # geometryType
  /\ geometryType' = g
  /\ ligandPositions' = getLigandPositions(g, distance)
  /\ UNCHANGED <<distance, ligandStrength, energies, prev, diagramSize, bars>>

SceneSetDistance(d) ==
  /\ UNCHANGED <<isDarkMode, orbitalStates, orbitalType, orbitalScale, surface,
                 orbitalScales, shellVars, memoDeps>>
  /\ d # distance
  /\ distance' = d
  /\ ligandPositions' = getLigandPositions(geometryType, d)
  /\ UNCHANGED <<geometryType, ligandStrength, energies, prev, diagramSize, bars>>

NextScene ==
  \/ \E g \in GeometryTypes : SceneSetGeometry(g)
  \/ \E d \in SceneDistances : SceneSetDistance(d)

SpecScene == InitScene /\ [][NextScene]_vars

(***************************************************************************)
(* Diagram layout (OrbitalSplittingDiagram, the three diagrams, EnergyLevel)*)
(***************************************************************************)
\* typedEnergies: the geometry tag is recovered from the fields present
typedGeometry(en) ==
  IF en = Undefined THEN "none"
  ELSE IF "eg" \in DOMAIN en /\ "t2g" \in DOMAIN en THEN "octahedral"
  ELSE IF "t2" \in DOMAIN en /\ "e" \in DOMAIN en THEN "tetrahedral"
  ELSE IF "dx2y2" \in DOMAIN en /\ "dxy" \in DOMAIN en THEN "squarePlanar"
  ELSE "none"

energyValues(en) ==
  IF typedGeometry(en) = "octahedral" THEN <<en.eg, en.t2g>>
  ELSE IF typedGeometry(en) = "tetrahedral" THEN <<en.t2, en.e>>
  ELSE <<en.dx2y2, en.dxy, en.dz2, en.dxz, en.dyz>>

RECURSIVE SeqMin(_)
SeqMin(q) == IF Len(q) = 1 THEN q[1] ELSE RMin(q[1], SeqMin(Tail(q)))

RECURSIVE SeqMax(_)
SeqMax(q) == IF Len(q) = 1 THEN q[1] ELSE RMax(q[1], SeqMax(Tail(q)))

energyStats(en) ==
  IF typedGeometry(en) = "none"
  THEN [minEnergy |-> RZero, maxEnergy |-> RInt(3), range |-> RInt(3),
        baselinePadding |-> Rat(2, 10), topPadding |-> Rat(5, 10),
        energyScale |-> Rat(37, 10)]
  ELSE
  LET minEnergy       == SeqMin(energyValues(en))
      maxEnergy       == SeqMax(energyValues(en))
      range           == RMax(RSub(maxEnergy, minEnergy), Rat(1, 1000))
      baselinePadding == RMax(RMul(range, Rat(1, 10)), Rat(15, 100))
      topPadding      == RMax(RMul(range, Rat(2, 10)), Rat(3, 10))
  IN  [minEnergy |-> minEnergy, maxEnergy |-> maxEnergy, range |-> range,
       baselinePadding |-> baselinePadding, topPadding |-> topPadding,
       energyScale |-> RAdd(RAdd(range, baselinePadding), topPadding)]

\* typedEnergies?.data.splitting ?? 0
splittingValue(en) ==
  IF typedGeometry(en) = "none" THEN RZero ELSE en.splitting

\* diagramSize.width || 360, diagramSize.height || 300
effectiveDiagramWidth(size) == IF size.width = RZero THEN RInt(360) ELSE size.width

effectiveDiagramHeight(size) == IF size.height = RZero THEN RInt(300) ELSE size.height

\* the paddings every diagram computes from diagramHeight
topPaddingPx(h) == RMin(RInt(44), RMax(RInt(16), RMul(h, Rat(1, 10))))

bottomPaddingPx(h) == RMin(RInt(72), RMax(RInt(24), RMul(h, Rat(18, 100))))

\* variant: the bar area is not reduced by the bottom padding
usableHeightOf_nobottom(h, top, bottom) ==
  RMax(RSub(RMax(h, RInt(80)), top), RInt(36))

\* EnergyLevel: usableHeight, from containerHeight = Math.max(_containerHeight, 80)
usableHeightOf(h, top, bottom) ==
  RMax(RSub(RSub(RMax(h, RInt(80)), top), bottom), RInt(36))

\* variant: the bar rises with 1 - energy (y grows with the energy)
EnergyLevel_inverted(label, energy, index, stats, w, h) ==
  LET shiftedEnergy     == RMax(RZero, RSub(energy, stats.minEnergy))
      normalizedEnergy  == RMin(RInt(1),
                             RDiv(RAdd(shiftedEnergy, stats.baselinePadding),
                                  RMax(stats.energyScale, Rat(1, 1000))))
      top               == topPaddingPx(h)
      bottom            == bottomPaddingPx(h)
      usableHeight      == usableHeightOf(h, top, bottom)
      yPositionPx       == RAdd(top, RMul(normalizedEnergy, usableHeight))
      cappedYPositionPx == RMax(top, RMin(RAdd(top, usableHeight), yPositionPx))
      totalOrbitals     == 5
      middleIndex       == totalOrbitals \div 2
      offsetFromCenter  == index - middleIndex
      safeWidth         == RMax(w, RInt(totalOrbitals * 48))
      rawSpacing        == RDiv(safeWidth, RInt(totalOrbitals))
      spacingPx         == RMax(RInt(36), RMin(rawSpacing, RInt(90)))
      barWidth          == RMax(RInt(30), RMin(RMul(spacingPx, Rat(6, 10)), RInt(60)))
  IN  [label |-> label, energy |-> energy, index |-> index,
       top |-> cappedYPositionPx,
       offset |-> RMul(RInt(offsetFromCenter), spacingPx),
       barWidth |-> barWidth]

\* variant: slots are counted from the left edge, not from the centre
EnergyLevel_fromleft(label, energy, index, stats, w, h) ==
  LET shiftedEnergy     == RMax(RZero, RSub(energy, stats.minEnergy))
      normalizedEnergy  == RMin(RInt(1),
                             RDiv(RAdd(shiftedEnergy, stats.baselinePadding),
                                  RMax(stats.energyScale, Rat(1, 1000))))
      top               == topPaddingPx(h)
      bottom            == bottomPaddingPx(h)
      usableHeight      == usableHeightOf(h, top, bottom)
      yPositionPx       == RAdd(top, RMul(RSub(RInt(1), normalizedEnergy), usableHeight))
      cappedYPositionPx == RMax(top, RMin(RAdd(top, usableHeight), yPositionPx))
      totalOrbitals     == 5
      middleIndex       == 0
      offsetFromCenter  == index - middleIndex
      safeWidth         == RMax(w, RInt(totalOrbitals * 48))
      rawSpacing        == RDiv(safeWidth, RInt(totalOrbitals))
      spacingPx         == RMax(RInt(36), RMin(rawSpacing, RInt(90)))
      barWidth          == RMax(RInt(30), RMin(RMul(spacingPx, Rat(6, 10)), RInt(60)))
  IN  [label |-> label, energy |-> energy, index |-> index,
       top |-> cappedYPositionPx,
       offset |-> RMul(RInt(offsetFromCenter), spacingPx),
       barWidth |-> barWidth]

\* EnergyLevel, as the diagrams call it (totalOrbitals = 5, paddings passed in)
\* variant: Math.max(60, Math.min(spacingPx * 0.6, 90))
EnergyLevel_widebar(label, energy, index, stats, w, h) ==
  LET shiftedEnergy     == RMax(RZero, RSub(energy, stats.minEnergy))
      normalizedEnergy  == RMin(RInt(1),
                             RDiv(RAdd(shiftedEnergy, stats.baselinePadding),
                                  RMax(stats.energyScale, Rat(1, 1000))))
      top               == topPaddingPx(h)
      bottom            == bottomPaddingPx(h)
      usableHeight      == usableHeightOf(h, top, bottom)
      yPositionPx       == RAdd(top, RMul(RSub(RInt(1), normalizedEnergy), usableHeight))
      cappedYPositionPx == RMax(top, RMin(RAdd(top, usableHeight), yPositionPx))
      totalOrbitals     == 5
      middleIndex       == totalOrbitals \div 2
      offsetFromCenter  == index - middleIndex
      safeWidth         == RMax(w, RInt(totalOrbitals * 48))
      rawSpacing        == RDiv(safeWidth, RInt(totalOrbitals))
      spacingPx         == RMax(RInt(36), RMin(rawSpacing, RInt(90)))
      barWidth          == RMax(RInt(60), RMin(RMul(spacingPx, Rat(6, 10)), RInt(90)))
  IN  [label |-> label, energy |-> energy, index |-> index,
       top |-> cappedYPositionPx,
       offset |-> RMul(RInt(offsetFromCenter), spacingPx),
       barWidth |-> barWidth]

EnergyLevel(label, energy, index, stats, w, h) ==
  LET shiftedEnergy     == RMax(RZero, RSub(energy, stats.minEnergy))
      normalizedEnergy  == RMin(RInt(1),
                             RDiv(RAdd(shiftedEnergy, stats.baselinePadding),
                                  RMax(stats.energyScale, Rat(1, 1000))))
      top               == topPaddingPx(h)
      bottom            == bottomPaddingPx(h)
      usableHeight      == usableHeightOf(h, top, bottom)
      yPositionPx       == RAdd(top, RMul(RSub(RInt(1), normalizedEnergy), usableHeight))
      cappedYPositionPx == RMax(top, RMin(RAdd(top, usableHeight), yPositionPx))
      totalOrbitals     == 5
      middleIndex       == totalOrbitals \div 2
      offsetFromCenter  == index - middleIndex
      safeWidth         == RMax(w, RInt(totalOrbitals * 48))
      rawSpacing        == RDiv(safeWidth, RInt(totalOrbitals))
      spacingPx         == RMax(RInt(36), RMin(rawSpacing, RInt(90)))
      barWidth          == RMax(RInt(30), RMin(RMul(spacingPx, Rat(6, 10)), RInt(60)))
  IN  [label |-> label, energy |-> energy, index |-> index,
       top |-> cappedYPositionPx,
       offset |-> RMul(RInt(offsetFromCenter), spacingPx),
       barWidth |-> barWidth]

OctahedralDiagram(en, stats, w, h) ==
  << EnergyLevel("dxy", en.t2g, 0, stats, w, h),
     EnergyLevel("dxz", en.t2g, 1, stats, w, h),
     EnergyLevel("dyz", en.t2g, 2, stats, w, h),
     EnergyLevel("dz2", en.eg, 3, stats, w, h),
     EnergyLevel("dx2y2", en.eg, 4, stats, w, h) >>

\* variant: the tetrahedral diagram laid out in the octahedral order
TetrahedralDiagram_octorder(en, stats, w, h) ==
  << EnergyLevel("dxy", en.t2, 0, stats, w, h),
     EnergyLevel("dxz", en.t2, 1, stats, w, h),
     EnergyLevel("dyz", en.t2, 2, stats, w, h),
     EnergyLevel("dz2", en.e, 3, stats, w, h),
     EnergyLevel("dx2y2", en.e, 4, stats, w, h) >>

TetrahedralDiagram(en, stats, w, h) ==
  << EnergyLevel("dz2", en.e, 0, stats, w, h),
     EnergyLevel("dx2y2", en.e, 1, stats, w, h),
     EnergyLevel("dxy", en.t2, 2, stats, w, h),
     EnergyLevel("dxz", en.t2, 3, stats, w, h),
     EnergyLevel("dyz", en.t2, 4, stats, w, h) >>

SquarePlanarDiagram(en, stats, w, h) ==
  << EnergyLevel("dxz", en.dxz, 0, stats, w, h),
     EnergyLevel("dyz", en.dyz, 1, stats, w, h),
     EnergyLevel("dz2", en.dz2, 2, stats, w, h),
     EnergyLevel("dxy", en.dxy, 3, stats, w, h),
     EnergyLevel("dx2y2", en.dx2y2, 4, stats, w, h) >>

\* the bars OrbitalSplittingDiagram renders for an energy result and a size
RenderBars(en, size) ==
  LET stats == energyStats(en)
      w     == effectiveDiagramWidth(size)
      h     == effectiveDiagramHeight(size)
  IN  IF typedGeometry(en) = "octahedral" THEN OctahedralDiagram(en, stats, w, h)
      ELSE IF typedGeometry(en) = "tetrahedral" THEN TetrahedralDiagram(en, stats, w, h)
      ELSE IF typedGeometry(en) = "squarePlanar" THEN SquarePlanarDiagram(en, stats, w, h)
      ELSE NoBars

MaxDiagDistSteps == 9

MaxDiagStrengthSteps == 4

MaxSizeSteps == 13

\* distances 0.5, 1.0, ..., containing the slider's extremes 1.0 and 4.0
DiagramDistances == { Rat(k, 2) : k \in 1..MaxDiagDistSteps }

\* strengths 1, 4, 7, 10: the weakest and the strongest catalog ligand
DiagramStrengths == { RInt(3 * k - 2) : k \in 1..MaxDiagStrengthSteps }

\* container sizes 60 x 40, 120 x 80, ... (px)
DiagramSizes ==
  { [width |-> RInt(60 * k), height |-> RInt(40 * k)] : k \in 1..MaxSizeSteps }

\* first render: useState({ width: 0, height: 0 })
InitDiagram ==
  /\ isDarkMode = TRUE
  /\ orbitalStates = AllVisible
  /\ orbitalType = "dz2"
  /\ orbitalScale = RInt(1)
  /\ surface = NoSurface
  /\ orbitalScales = InitialScales
  /\ ShellInitial
  /\ memoDeps = NoDeps
  /\ geometryType \in GeometryTypes
  /\ distance \in DiagramDistances
  /\ ligandStrength \in DiagramStrengths
  /\ energies = calculateSplitting(geometryType, distance, ligandStrength)
  /\ diagramSize = NoSize
  /\ bars = RenderBars(energies, diagramSize)
  /\ prev = NoEnergies
  /\ ligandPositions = NoScene

\* ResizeObserver callback: contentRect of the diagram box
DiagramResize(size) ==
  /\ UNCHANGED <<isDarkMode, orbitalStates, orbitalType, orbitalScale, surface,
                 orbitalScales, shellVars, memoDeps>>
  /\ ~(diagramSize.width = size.width /\ diagramSize.height = size.height)
  /\ diagramSize' = [width |-> size.width, height |-> size.height]
  /\ bars' = RenderBars(energies, diagramSize')
  /\ UNCHANGED <<geometryType, distance, ligandStrength, energies, prev, ligandPositions>>

DiagramSetGeometry(g) ==
  /\ UNCHANGED <<isDarkMode, orbitalStates, orbitalType, orbitalScale, surface,
                 orbitalScales, shellVars, memoDeps>>
  /\ g # geometryType
  /\ geometryType' = g
  /\ energies' = calculateSplitting(g, distance, ligandStrength)
  /\ bars' = RenderBars(energies', diagramSize)
  /\ UNCHANGED <<distance, ligandStrength, prev, ligandPositions, diagramSize>>

DiagramSetDistance(d) ==
  /\ UNCHANGED <<isDarkMode, orbitalStates, orbitalType, orbitalScale, surface,
                 orbitalScales, shellVars, memoDeps>>
  /\ d # distance
  /\ distance' = d
  /\ energies' = calculateSplitting(geometryType, d, ligandStrength)
  /\ bars' = RenderBars(energies', diagramSize)
  /\ UNCHANGED <<geometryType, ligandStrength, prev, ligandPositions, diagramSize>>

DiagramSetStrength(s) ==
  /\ UNCHANGED <<isDarkMode, orbitalStates, orbitalType, orbitalScale, surface,
                 orbitalScales, shellVars, memoDeps>>
  /\ s # ligandStrength
  /\ ligandStrength' = s
  /\ energies' = calculateSplitting(geometryType, distance, s)
  /\ bars' = RenderBars(energies', diagramSize)
  /\ UNCHANGED <<geometryType, distance, prev, ligandPositions, diagramSize>>

NextDiagram ==
  \/ \E size \in DiagramSizes : DiagramResize(size)
  \/ \E g \in GeometryTypes : DiagramSetGeometry(g)
  \/ \E d \in DiagramDistances : DiagramSetDistance(d)
  \/ \E s \in DiagramStrengths : DiagramSetStrength(s)

SpecDiagram == InitDiagram /\ [][NextDiagram]_vars

(***************************************************************************)
(* The diagram when the caller passes a geometry outside GeometryType       *)
(* (possible at run time: the type is erased)                               *)
(***************************************************************************)
AnyGeometries == GeometryTypes \cup {"linear"}

InitAnyGeometry ==
  /\ isDarkMode = TRUE
  /\ orbitalStates = AllVisible
  /\ orbitalType = "dz2"
  /\ orbitalScale = RInt(1)
  /\ surface = NoSurface
  /\ orbitalScales = InitialScales
  /\ ShellInitial
  /\ memoDeps = NoDeps
  /\ geometryType \in AnyGeometries
  /\ distance \in DiagramDistances
  /\ ligandStrength = RInt(6)
  /\ energies = calculateSplitting(geometryType, distance, ligandStrength)
  /\ diagramSize = NoSize
  /\ bars = RenderBars(energies, diagramSize)
  /\ prev = NoEnergies
  /\ ligandPositions = NoScene

NextAnyGeometry ==
  \/ \E size \in DiagramSizes : DiagramResize(size)
  \/ \E g \in AnyGeometries : DiagramSetGeometry(g)
  \/ \E d \in DiagramDistances : DiagramSetDistance(d)

SpecAnyGeometry == InitAnyGeometry /\ [][NextAnyGeometry]_vars

(***************************************************************************)
(* The two-geometry calculateSplitting of components/OrbitalSplittingDiagram*)
(* (the variant the README's "Physics Model" section documents)            *)
(***************************************************************************)
calculateSplittingV1(geometry, d, strength) ==
  LET base == RDiv(strength, Pow3(d))
  IN  IF geometry = "octahedral"
      THEN [eg        |-> RMul(base, Rat(6, 10)),
            t2g       |-> RMul(RNeg(base), Rat(4, 10)),
            splitting |-> RMul(base, RInt(1))]
      ELSE IF geometry = "squarePlanar"
      THEN [dx2y2     |-> RMul(base, Rat(8, 10)),
            dz2       |-> RMul(base, Rat(6, 10)),
            dxy       |-> RMul(RNeg(base), Rat(4, 10)),
            dxz       |-> RMul(RNeg(base), Rat(4, 10)),
            dyz       |-> RMul(RNeg(base), Rat(4, 10)),
            splitting |-> RMul(base, Rat(12, 10))]
      ELSE Undefined

\* the geometries its ControlsPanel offers
GeometryTypesV1 == {"octahedral", "squarePlanar"}

InitV1 ==
  /\ isDarkMode = TRUE
  /\ orbitalStates = AllVisible
  /\ orbitalType = "dz2"
  /\ orbitalScale = RInt(1)
  /\ surface = NoSurface
  /\ orbitalScales = InitialScales
  /\ ShellInitial
  /\ memoDeps = NoDeps
  /\ geometryType \in GeometryTypesV1
  /\ distance \in Distances
  /\ ligandStrength \in Strengths
  /\ energies = calculateSplittingV1(geometryType, distance, ligandStrength)
  /\ prev = NoEnergies
  /\ ligandPositions = NoScene
  /\ diagramSize = NoSize
  /\ bars = NoBars

V1SetGeometry(g) ==
  /\ UNCHANGED <<isDarkMode, orbitalStates, orbitalType, orbitalScale, surface,
                 orbitalScales, shellVars, memoDeps>>
  /\ g # geometryType
  /\ geometryType' = g
  /\ energies' = calculateSplittingV1(g, distance, ligandStrength)
  /\ UNCHANGED <<distance, ligandStrength, prev, ligandPositions, diagramSize, bars>>

V1SetDistance(d) ==
  /\ UNCHANGED <<isDarkMode, orbitalStates, orbitalType, orbitalScale, surface,
                 orbitalScales, shellVars, memoDeps>>
  /\ d # distance
  /\ distance' = d
  /\ energies' = calculateSplittingV1(geometryType, d, ligandStrength)
  /\ UNCHANGED <<geometryType, ligandStrength, prev, ligandPositions, diagramSize, bars>>

V1SetStrength(st) ==
  /\ UNCHANGED <<isDarkMode, orbitalStates, orbitalType, orbitalScale, surface,
                 orbitalScales, shellVars, memoDeps>>
  /\ st # ligandStrength
  /\ ligandStrength' = st
  /\ energies' = calculateSplittingV1(geometryType, distance, st)
  /\ UNCHANGED <<geometryType, distance, prev, ligandPositions, diagramSize, bars>>

NextV1 ==
  \/ \E g \in GeometryTypesV1 : V1SetGeometry(g)
  \/ \E d \in Distances : V1SetDistance(d)
  \/ \E st \in Strengths : V1SetStrength(st)

SpecV1 == InitV1 /\ [][NextV1]_vars

(***************************************************************************)
(* The controls of ControlsPanel, acting on the state of App: geometry     *)
(* select, distance slider, ligand select and dark mode switch.  The       *)
(* energies memo of the diagram is recomputed with every change of its     *)
(* three inputs.                                                           *)
(***************************************************************************)
\* the ligand catalog of App (spectrochemical series)
ligands ==
  << [name |-> "I-",   strength |-> 1],
     [name |-> "Br-",  strength |-> 2],
     [name |-> "Cl-",  strength |-> 3],
     [name |-> "NO2-", strength |-> 9],
     [name |-> "OH-",  strength |-> 5],
     [name |-> "F-",   strength |-> 4],
     [name |-> "H2O",  strength |-> 6],
     [name |-> "NH3",  strength |-> 7],
     [name |-> "en",   strength |-> 8],
     [name |-> "CN-",  strength |-> 10] >>

\* Math.round
Round(x) == RAdd(x, Rat(1, 2)).n \div RAdd(x, Rat(1, 2)).d

sliderMin == RInt(1)

\* variant: a slider that reaches 5.0
sliderMax_five == RInt(5)

sliderMax == RInt(4)

sliderStep == Rat(1, 10)

\* The value the Slider reports for a pointer at the given fraction of its
\* track: interpolated between min and max, rounded to the step, clamped.
SliderValue(percent) ==
  LET raw   == RAdd(sliderMin, RMul(percent, RSub(sliderMax, sliderMin)))
      steps == Round(RDiv(RSub(raw, sliderMin), sliderStep))
      value == RAdd(sliderMin, RMul(RInt(steps), sliderStep))
  IN  RMin(RMax(value, sliderMin), sliderMax)

MaxPointerSteps == 30

PointerFractions == { Rat(k, MaxPointerSteps) : k \in 0..MaxPointerSteps }

InitApp ==
  /\ geometryType = "octahedral"
  /\ distance = RInt(2)
  /\ ligandStrength = RInt(6)
  /\ isDarkMode = TRUE
  /\ orbitalStates = AllVisible
  /\ energies = calculateSplitting(geometryType, distance, ligandStrength)
  /\ prev = NoEnergies
  /\ ligandPositions = NoScene
  /\ diagramSize = NoSize
  /\ bars = NoBars
  /\ orbitalType = "dz2"
  /\ orbitalScale = RInt(1)
  /\ surface = NoSurface
  /\ orbitalScales = InitialScales
  /\ ShellInitial
  /\ memoDeps = NoDeps

AppUnchanged == UNCHANGED <<prev, ligandPositions, diagramSize, bars,
                            orbitalType, orbitalScale, surface,
                            orbitalScales, shellVars, memoDeps>>

setGeometryType(g) ==
  /\ g # geometryType
  /\ geometryType' = g
  /\ energies' = calculateSplitting(g, distance, ligandStrength)
  /\ UNCHANGED <<distance, ligandStrength, isDarkMode, orbitalStates>>
  /\ AppUnchanged

setDistance(percent) ==
  /\ SliderValue(percent) # distance
  /\ distance' = SliderValue(percent)
  /\ energies' = calculateSplitting(geometryType, distance', ligandStrength)
  /\ UNCHANGED <<geometryType, ligandStrength, isDarkMode, orbitalStates>>
  /\ AppUnchanged

setLigandStrength(i) ==
  /\ RInt(ligands[i].strength) # ligandStrength
  /\ ligandStrength' = RInt(ligands[i].strength)
  /\ energies' = calculateSplitting(geometryType, distance, ligandStrength')
  /\ UNCHANGED <<geometryType, distance, isDarkMode, orbitalStates>>
  /\ AppUnchanged

setIsDarkMode(checked) ==
  /\ checked # isDarkMode
  /\ isDarkMode' = checked
  /\ UNCHANGED <<geometryType, distance, ligandStrength, energies, orbitalStates>>
  /\ AppUnchanged

NextApp ==
  \/ \E g \in GeometryTypes : setGeometryType(g)
  \/ \E percent \in PointerFractions : setDistance(percent)
  \/ \E i \in DOMAIN ligands : setLigandStrength(i)
  \/ \E checked \in BOOLEAN : setIsDarkMode(checked)

SpecApp == InitApp /\ [][NextApp]_vars

(***************************************************************************)
(* The orbital surface of MetalComplexScene (makeDOrbitalGeometry).        *)
(* Angles are kept in units of pi.  The parametric grid is sampled where   *)
(* theta and phi are multiples of pi/6, so that every sine and cosine lies *)
(* in Q(sqrt 3) and the vertices are exact.                                *)
(***************************************************************************)
\* sin(k * pi / 6)
SinSixth(k) ==
  LET m == k % 12
      quarter == IF m % 6 = 0 THEN SZero
                 ELSE IF m % 6 = 1 \/ m % 6 = 5 THEN SRat(Rat(1, 2))
                 ELSE IF m % 6 = 2 \/ m % 6 = 4 THEN [a |-> RZero, b |-> Rat(1, 2)]
                 ELSE SRat(RInt(1))
  IN  IF m < 6 THEN quarter ELSE SNeg(quarter)

\* Math.sin(pi * x), x a multiple of 1/6
SinPi(x) == SinSixth(RMul(RInt(6), x).n)

\* Math.cos(pi * x), x a multiple of 1/6
CosPi(x) == SinSixth(RMul(RInt(6), x).n + 3)

\* x >= 0 for x = a + b sqrt 3
SNonNeg(x) ==
  IF x.a.n >= 0 /\ x.b.n >= 0 THEN TRUE
  ELSE IF x.a.n <= 0 /\ x.b.n <= 0 THEN FALSE
  ELSE IF x.a.n > 0 THEN RLe(RMul(RInt(3), RMul(x.b, x.b)), RMul(x.a, x.a))
  ELSE RLe(RMul(x.a, x.a), RMul(RInt(3), RMul(x.b, x.b)))

\* Math.abs
SAbs(x) == IF SNonNeg(x) THEN x ELSE SNeg(x)

\* variant: an unknown type gets amplitude 1 (a sphere)
amplitude_defaultone(type, theta, phi) ==
  IF type = "dz2"
  THEN SAdd(SMul(SRat(RInt(3)), SMul(CosPi(theta), CosPi(theta))), SRat(RInt(0 - 1)))
  ELSE IF type = "dx2y2"
  THEN SMul(SMul(SinPi(theta), SinPi(theta)), CosPi(RMul(RInt(2), phi)))
  ELSE IF type = "dxy"
  THEN SMul(SMul(SinPi(theta), SinPi(theta)), SinPi(RMul(RInt(2), phi)))
  ELSE IF type = "dxz"
  THEN SMul(SinPi(RMul(RInt(2), theta)), CosPi(phi))
  ELSE IF type = "dyz"
  THEN SMul(SinPi(RMul(RInt(2), theta)), SinPi(phi))
  ELSE SRat(RInt(1))

\* variant: dz2 with an azimuthal term
amplitude_dz2azimuth(type, theta, phi) ==
  IF type = "dz2"
  THEN SAdd(SMul(SRat(RInt(3)), SMul(CosPi(theta), CosPi(theta))),
            SNeg(SMul(CosPi(phi), CosPi(phi))))
  ELSE IF type = "dx2y2"
  THEN SMul(SMul(SinPi(theta), SinPi(theta)), CosPi(RMul(RInt(2), phi)))
  ELSE IF type = "dxy"
  THEN SMul(SMul(SinPi(theta), SinPi(theta)), SinPi(RMul(RInt(2), phi)))
  ELSE IF type = "dxz"
  THEN SMul(SinPi(RMul(RInt(2), theta)), CosPi(phi))
  ELSE IF type = "dyz"
  THEN SMul(SinPi(RMul(RInt(2), theta)), SinPi(phi))
  ELSE SZero

\* the angular amplitude f selected by the switch on type
amplitude(type, theta, phi) ==
  IF type = "dz2"
  THEN SAdd(SMul(SRat(RInt(3)), SMul(CosPi(theta), CosPi(theta))), SRat(RInt(0 - 1)))
  ELSE IF type = "dx2y2"
  THEN SMul(SMul(SinPi(theta), SinPi(theta)), CosPi(RMul(RInt(2), phi)))
  ELSE IF type = "dxy"
  THEN SMul(SMul(SinPi(theta), SinPi(theta)), SinPi(RMul(RInt(2), phi)))
  ELSE IF type = "dxz"
  THEN SMul(SinPi(RMul(RInt(2), theta)), CosPi(phi))
  ELSE IF type = "dyz"
  THEN SMul(SinPi(RMul(RInt(2), theta)), SinPi(phi))
  ELSE SZero

\* the vertex for the parameters (u, v): theta = pi u, phi = 2 pi v
func(type, scale, u, v) ==
  LET theta == u
      phi   == RMul(RInt(2), v)
      r     == SMul(SAbs(amplitude(type, theta, phi)), SRat(scale))
  IN  << SMul(SMul(r, SinPi(theta)), CosPi(phi)),
         SMul(SMul(r, SinPi(theta)), SinPi(phi)),
         SMul(r, CosPi(theta)) >>

\* the values of u and of v at which the surface is sampled
GridPoints == { Rat(j, 6) : j \in 0..6 }

makeDOrbitalGeometry(type, scale) ==
  [p \in GridPoints \X GridPoints |-> func(type, scale, p[1], p[2])]

\* the five orbitals and a type outside the switch
SurfaceTypes == OrbitalKeys \cup {"fz3"}

MaxScaleTenths == 20

SurfaceScales == { Rat(k, 10) : k \in 1..MaxScaleTenths }

InitSurface ==
  /\ orbitalType \in SurfaceTypes
  /\ orbitalScale \in SurfaceScales
  /\ surface = makeDOrbitalGeometry(orbitalType, orbitalScale)
  /\ orbitalScales = InitialScales
  /\ ShellInitial
  /\ memoDeps = NoDeps
  /\ geometryType = "octahedral"
  /\ distance = RInt(2)
  /\ ligandStrength = RInt(6)
  /\ isDarkMode = TRUE
  /\ orbitalStates = AllVisible
  /\ energies = NoEnergies
  /\ prev = NoEnergies
  /\ ligandPositions = NoScene
  /\ diagramSize = NoSize
  /\ bars = NoBars

SurfaceSetType(t) ==
  /\ t # orbitalType
  /\ orbitalType' = t
  /\ surface' = makeDOrbitalGeometry(t, orbitalScale)
  /\ UNCHANGED <<orbitalScale, geometryType, distance, ligandStrength, isDarkMode,
                 orbitalStates, energies, prev, ligandPositions, diagramSize, bars,
                 orbitalScales, shellVars, memoDeps>>

SurfaceSetScale(sc) ==
  /\ sc # orbitalScale
  /\ orbitalScale' = sc
  /\ surface' = makeDOrbitalGeometry(orbitalType, sc)
  /\ UNCHANGED <<orbitalType, geometryType, distance, ligandStrength, isDarkMode,
                 orbitalStates, energies, prev, ligandPositions, diagramSize, bars,
                 orbitalScales, shellVars, memoDeps>>

NextSurface ==
  \/ \E t \in SurfaceTypes : SurfaceSetType(t)
  \/ \E sc \in SurfaceScales : SurfaceSetScale(sc)

SpecSurface == InitSurface /\ [][NextSurface]_vars

(***************************************************************************)
(* The orbital controls: the filter chips of App and the switches, scale   *)
(* sliders and quick actions of OrbitalControls, next to the distance      *)
(* slider that sets the base scale of the orbitals in the scene.           *)
(***************************************************************************)
\* the keys of orbitalStates in insertion order (Object.values)
OrbitalKeySeq == <<"dz2", "dx2y2", "dxy", "dxz", "dyz">>

RECURSIVE CountTrue(_, _)
CountTrue(states, keys) ==
  IF keys = <<>> THEN 0
  ELSE (IF states[Head(keys)] THEN 1 ELSE 0) + CountTrue(states, Tail(keys))

\* Object.values(orbitalStates).filter(Boolean).length
visibleCount(states) == CountTrue(states, OrbitalKeySeq)

\* variant: a scale slider that starts at 0
scaleMin_zero == RZero

scaleMin == Rat(2, 10)

scaleMax == RInt(2)

scaleStep == Rat(1, 10)

\* the value a scale Slider reports for a pointer at the given fraction
ScaleSliderValue(percent) ==
  LET raw   == RAdd(scaleMin, RMul(percent, RSub(scaleMax, scaleMin)))
      steps == Round(RDiv(RSub(raw, scaleMin), scaleStep))
      value == RAdd(scaleMin, RMul(RInt(steps), scaleStep))
  IN  RMin(RMax(value, scaleMin), scaleMax)

\* DOrbitals: Math.max(0.5, 1.2 - distance * 0.2)
baseScale(d) == RMax(Rat(1, 2), RSub(Rat(12, 10), RMul(d, Rat(2, 10))))

\* DOrbitals: scale={baseScale * orbitalScales[type]}
passedScale(d, scales, type) == RMul(baseScale(d), scales[type])

MaxScalePointerSteps == 1

ScalePointerFractions == { Rat(k, MaxScalePointerSteps) : k \in 0..MaxScalePointerSteps }

MaxCoarsePointerSteps == 2

CoarsePointerFractions == { Rat(k, MaxCoarsePointerSteps) : k \in 0..MaxCoarsePointerSteps }

InitOrbitals ==
  /\ geometryType = "octahedral"
  /\ distance = RInt(2)
  /\ ligandStrength = RInt(6)
  /\ isDarkMode = TRUE
  /\ orbitalStates = AllVisible
  /\ orbitalScales = InitialScales
  /\ energies = calculateSplitting(geometryType, distance, ligandStrength)
  /\ prev = NoEnergies
  /\ ligandPositions = NoScene
  /\ diagramSize = NoSize
  /\ bars = NoBars
  /\ orbitalType = "dz2"
  /\ orbitalScale = RInt(1)
  /\ surface = NoSurface
  /\ ShellInitial
  /\ memoDeps = NoDeps

OrbitalsUnchanged ==
  UNCHANGED <<geometryType, distance, ligandStrength, energies, isDarkMode, prev,
              ligandPositions, diagramSize, bars, orbitalType, orbitalScale,
              surface, shellVars, memoDeps>>

\* variant: an updater that drops the spread of the previous state
toggleUpdater_hideothers(prevStates, o) ==
  [k \in OrbitalKeys |-> IF k = o THEN ~prevStates[o] ELSE FALSE]

\* the updater handleOrbitalToggle passes to setOrbitalStates
toggleUpdater(prevStates, o) ==
  [prevStates EXCEPT ![o] = ~prevStates[o]]

\* the Switch of an orbital in OrbitalControls
handleOrbitalToggle(o) ==
  /\ orbitalStates' = toggleUpdater(orbitalStates, o)
  /\ UNCHANGED orbitalScales
  /\ OrbitalsUnchanged

\* the filter chip of an orbital above the scene
filterChipClick(o) ==
  /\ orbitalStates' = [orbitalStates EXCEPT ![o] = ~orbitalStates[o]]
  /\ UNCHANGED orbitalScales
  /\ OrbitalsUnchanged

ShowAll ==
  /\ orbitalStates' = [k \in DOMAIN orbitalStates |-> TRUE]
  /\ UNCHANGED orbitalScales
  /\ OrbitalsUnchanged

HideAll ==
  /\ orbitalStates' = [k \in DOMAIN orbitalStates |-> FALSE]
  /\ UNCHANGED orbitalScales
  /\ OrbitalsUnchanged

\* the scale Slider of an orbital, rendered while the orbital is visible
handleScaleChange(o, percent) ==
  /\ orbitalStates[o]
  /\ ScaleSliderValue(percent) # orbitalScales[o]
  /\ orbitalScales' = [orbitalScales EXCEPT ![o] = ScaleSliderValue(percent)]
  /\ UNCHANGED orbitalStates
  /\ OrbitalsUnchanged

ResetScales ==
  /\ orbitalScales' = [o \in OrbitalKeys |-> IF o = "dz2" THEN Rat(6, 10) ELSE RInt(1)]
  /\ UNCHANGED orbitalStates
  /\ OrbitalsUnchanged

NextOrbitals ==
  \/ \E o \in OrbitalKeys : handleOrbitalToggle(o)
  \/ \E o \in OrbitalKeys : filterChipClick(o)
  \/ ShowAll
  \/ HideAll
  \/ \E o \in OrbitalKeys : \E percent \in ScalePointerFractions : handleScaleChange(o, percent)
  \/ ResetScales
  \/ \E percent \in CoarsePointerFractions : setDistance(percent)

SpecOrbitals == InitOrbitals /\ [][NextOrbitals]_vars

(***************************************************************************)
(* The App shell: the viewport media query, the controls drawer with its   *)
(* closing effect, and the pointer-driven resize of the mobile split.      *)
(* Each handler is one step.  React flushes the pending passive effect of  *)
(* a render before it renders the next state update, so the viewport, the  *)
(* drawer and the unmount wait for a pending effect.                       *)
(***************************************************************************)
MaxPointerY == 2

\* event.clientY (px)
PointerYs == { RInt(200 * k) : k \in 0..MaxPointerY }

\* container.getBoundingClientRect().height (px); 0 for a collapsed box
ContainerHeights == {RZero, RInt(400)}

\* document.body.style.userSelect as the page sets it
PageUserSelects == {"", "text"}

BothListeners == {"pointermove", "pointerup"}

InitShell ==
  /\ isMobile \in BOOLEAN
  /\ isControlsDrawerOpen = FALSE
  /\ effectPending = TRUE
  /\ mobileSplitRatio = Rat(55, 100)
  /\ isSplitResizing = FALSE
  /\ splitResizeStateRef = [startY |-> RZero, startRatio |-> Rat(55, 100),
                            containerHeight |-> RInt(1)]
  /\ previousUserSelectRef = ""
  /\ bodyUserSelect \in PageUserSelects
  /\ windowListeners = {}
  /\ mounted = TRUE
  /\ prev = [bodyUserSelect |-> bodyUserSelect]
  /\ memoDeps = NoDeps
  /\ geometryType = "octahedral"
  /\ distance = RInt(2)
  /\ ligandStrength = RInt(6)
  /\ isDarkMode = TRUE
  /\ orbitalStates = AllVisible
  /\ orbitalScales = InitialScales
  /\ energies = NoEnergies
  /\ ligandPositions = NoScene
  /\ diagramSize = NoSize
  /\ bars = NoBars
  /\ orbitalType = "dz2"
  /\ orbitalScale = RInt(1)
  /\ surface = NoSurface

ShellUnchanged ==
  UNCHANGED <<geometryType, distance, ligandStrength, energies, prev, ligandPositions,
              diagramSize, bars, isDarkMode, orbitalStates, orbitalType,
              orbitalScale, surface, orbitalScales, memoDeps>>

\* useMediaQuery('(max-width:900px)') reports a change
ViewportChange ==
  /\ mounted /\ ~effectPending
  /\ isMobile' = ~isMobile
  /\ effectPending' = TRUE
  /\ UNCHANGED <<isControlsDrawerOpen, mobileSplitRatio, isSplitResizing,
                 splitResizeStateRef, previousUserSelectRef, bodyUserSelect,
                 windowListeners, mounted>>
  /\ ShellUnchanged

\* "Open Controls" button, SwipeableDrawer onOpen / onClose and the close
\* button of the drawer, all rendered in the mobile layout only
setIsControlsDrawerOpen(open) ==
  /\ mounted /\ ~effectPending
  /\ isMobile
  /\ open # isControlsDrawerOpen
  /\ isControlsDrawerOpen' = open
  /\ effectPending' = TRUE
  /\ UNCHANGED <<isMobile, mobileSplitRatio, isSplitResizing, splitResizeStateRef,
                 previousUserSelectRef, bodyUserSelect, windowListeners, mounted>>
  /\ ShellUnchanged

\* variant: an effect that never closes the drawer
DrawerEffect_never ==
  /\ mounted /\ effectPending
  /\ isControlsDrawerOpen' = isControlsDrawerOpen
  /\ effectPending' = FALSE
  /\ UNCHANGED <<isMobile, mobileSplitRatio, isSplitResizing, splitResizeStateRef,
                 previousUserSelectRef, bodyUserSelect, windowListeners, mounted>>
  /\ ShellUnchanged

\* useEffect(..., [isMobile, isControlsDrawerOpen])
DrawerEffect ==
  /\ mounted /\ effectPending
  /\ IF ~isMobile /\ isControlsDrawerOpen
     THEN isControlsDrawerOpen' = FALSE /\ effectPending' = TRUE
     ELSE isControlsDrawerOpen' = isControlsDrawerOpen /\ effectPending' = FALSE
  /\ UNCHANGED <<isMobile, mobileSplitRatio, isSplitResizing, splitResizeStateRef,
                 previousUserSelectRef, bodyUserSelect, windowListeners, mounted>>
  /\ ShellUnchanged

\* variant: the ratio is not clamped
nextRatio_unclamped(ref, clientY) ==
  LET delta      == RSub(clientY, ref.startY)
      ratioDelta == RDiv(delta, ref.containerHeight)
  IN  RAdd(ref.startRatio, ratioDelta)

\* handleSplitResizeMove: the ratio for a pointer at clientY
nextRatio(ref, clientY) ==
  LET delta      == RSub(clientY, ref.startY)
      ratioDelta == RDiv(delta, ref.containerHeight)
      minRatio   == Rat(12, 100)
      maxRatio   == Rat(75, 100)
  IN  RMin(RMax(RAdd(ref.startRatio, ratioDelta), minRatio), maxRatio)

\* window 'pointermove' listener
handleSplitResizeMove(clientY) ==
  /\ "pointermove" \in windowListeners
  /\ IF RLe(splitResizeStateRef.containerHeight, RZero)
     THEN mobileSplitRatio' = mobileSplitRatio
     ELSE mobileSplitRatio' = nextRatio(splitResizeStateRef, clientY)
  /\ UNCHANGED <<isMobile, isControlsDrawerOpen, effectPending, isSplitResizing,
                 splitResizeStateRef, previousUserSelectRef, bodyUserSelect,
                 windowListeners, mounted>>
  /\ ShellUnchanged

\* variant: the pointermove listener stays registered
stopSplitResize_keepmove ==
  /\ "pointerup" \in windowListeners
  /\ isSplitResizing' = FALSE
  /\ windowListeners' = windowListeners \ {"pointerup"}
  /\ bodyUserSelect' = previousUserSelectRef
  /\ UNCHANGED <<isMobile, isControlsDrawerOpen, effectPending, mobileSplitRatio,
                 splitResizeStateRef, previousUserSelectRef, mounted>>
  /\ ShellUnchanged

\* window 'pointerup' listener
stopSplitResize ==
  /\ "pointerup" \in windowListeners
  /\ isSplitResizing' = FALSE
  /\ windowListeners' = windowListeners \ BothListeners
  /\ bodyUserSelect' = previousUserSelectRef
  /\ UNCHANGED <<isMobile, isControlsDrawerOpen, effectPending, mobileSplitRatio,
                 splitResizeStateRef, previousUserSelectRef, mounted>>
  /\ ShellUnchanged

\* onPointerDown of the resize handle; splitContainerRef is attached exactly
\* while the mobile layout is rendered
handleSplitResizeStart(clientY, height) ==
  /\ mounted
  /\ IF ~isMobile
     THEN UNCHANGED <<splitResizeStateRef, previousUserSelectRef, bodyUserSelect,
                      isSplitResizing, windowListeners>>
     ELSE /\ splitResizeStateRef' =
               [startY |-> clientY, startRatio |-> mobileSplitRatio,
                containerHeight |-> IF height = RZero THEN RInt(1) ELSE height]
          /\ previousUserSelectRef' = bodyUserSelect
          /\ bodyUserSelect' = "none"
          /\ isSplitResizing' = TRUE
          /\ windowListeners' = windowListeners \cup BothListeners
  /\ UNCHANGED <<isMobile, isControlsDrawerOpen, effectPending, mobileSplitRatio, mounted>>
  /\ ShellUnchanged

\* the cleanup of the mount effect
Unmount ==
  /\ mounted /\ ~effectPending
  /\ mounted' = FALSE
  /\ windowListeners' = windowListeners \ BothListeners
  /\ bodyUserSelect' = previousUserSelectRef
  /\ UNCHANGED <<isMobile, isControlsDrawerOpen, effectPending, mobileSplitRatio,
                 isSplitResizing, splitResizeStateRef, previousUserSelectRef>>
  /\ ShellUnchanged

NextShell ==
  \/ ViewportChange
  \/ \E open \in BOOLEAN : setIsControlsDrawerOpen(open)
  \/ DrawerEffect
  \/ \E y \in PointerYs : \E h \in ContainerHeights : handleSplitResizeStart(y, h)
  \/ \E y \in PointerYs : handleSplitResizeMove(y)
  \/ stopSplitResize
  \/ Unmount

\* the effect of a render runs once the render is committed
SpecShell == InitShell /\ [][NextShell]_vars /\ WF_vars(DrawerEffect)

(***************************************************************************)
(* Rendering with memoized values: the energies of the diagram, the ligand *)
(* positions of the scene and the surface of one DOrbital (the one of      *)
(* orbitalType).  Every state change re-renders; a useMemo returns the     *)
(* stored value when its dependency list is unchanged.                     *)
(***************************************************************************)
\* variant: only the first dependency is compared
useMemo_firstdep(value, storedDeps, deps, fresh) ==
  IF storedDeps[1] = deps[1] THEN value ELSE fresh

\* React.useMemo on a re-render
useMemo(value, storedDeps, deps, fresh) ==
  IF storedDeps = deps THEN value ELSE fresh

MaxLigandIndex == 2

\* what a render of App with the given state leaves in the memos
Render(g, d, st, scales) ==
  LET scale == passedScale(d, scales, orbitalType)
  IN  /\ energies' = useMemo(energies, memoDeps.energies, <<g, d, st>>,
                             calculateSplitting(g, d, st))
      /\ ligandPositions' = useMemo(ligandPositions, memoDeps.ligandPositions, <<g, d>>,
                                    getLigandPositions(g, d))
      /\ orbitalScale' = scale
      /\ surface' = useMemo(surface, memoDeps.surface, <<orbitalType, scale>>,
                            makeDOrbitalGeometry(orbitalType, scale))
      /\ memoDeps' = [energies |-> <<g, d, st>>, ligandPositions |-> <<g, d>>,
                      surface |-> <<orbitalType, scale>>]

InitRender ==
  /\ geometryType = "octahedral"
  /\ distance = RInt(2)
  /\ ligandStrength = RInt(6)
  /\ isDarkMode = TRUE
  /\ orbitalStates = AllVisible
  /\ orbitalScales = InitialScales
  /\ orbitalType \in OrbitalKeys
  /\ orbitalScale = passedScale(distance, orbitalScales, orbitalType)
  /\ energies = calculateSplitting(geometryType, distance, ligandStrength)
  /\ ligandPositions = getLigandPositions(geometryType, distance)
  /\ surface = makeDOrbitalGeometry(orbitalType, orbitalScale)
  /\ memoDeps = [energies |-> <<geometryType, distance, ligandStrength>>,
                 ligandPositions |-> <<geometryType, distance>>,
                 surface |-> <<orbitalType, orbitalScale>>]
  /\ prev = NoEnergies
  /\ diagramSize = NoSize
  /\ bars = NoBars
  /\ ShellInitial

RenderUnchanged ==
  UNCHANGED <<prev, diagramSize, bars, isDarkMode, orbitalStates, orbitalType, shellVars>>

RenderSetGeometry(g) ==
  /\ g # geometryType
  /\ geometryType' = g
  /\ Render(g, distance, ligandStrength, orbitalScales)
  /\ UNCHANGED <<distance, ligandStrength, orbitalScales>>
  /\ RenderUnchanged

RenderSetDistance(percent) ==
  /\ SliderValue(percent) # distance
  /\ distance' = SliderValue(percent)
  /\ Render(geometryType, distance', ligandStrength, orbitalScales)
  /\ UNCHANGED <<geometryType, ligandStrength, orbitalScales>>
  /\ RenderUnchanged

RenderSetStrength(i) ==
  /\ RInt(ligands[i].strength) # ligandStrength
  /\ ligandStrength' = RInt(ligands[i].strength)
  /\ Render(geometryType, distance, ligandStrength', orbitalScales)
  /\ UNCHANGED <<geometryType, distance, orbitalScales>>
  /\ RenderUnchanged

\* the scale slider of the observed orbital
RenderSetScale(percent) ==
  /\ ScaleSliderValue(percent) # orbitalScales[orbitalType]
  /\ orbitalScales' = [orbitalScales EXCEPT ![orbitalType] = ScaleSliderValue(percent)]
  /\ Render(geometryType, distance, ligandStrength, orbitalScales')
  /\ UNCHANGED <<geometryType, distance, ligandStrength>>
  /\ RenderUnchanged

RenderResetScales ==
  /\ orbitalScales # InitialScales
  /\ orbitalScales' = [o \in OrbitalKeys |-> IF o = "dz2" THEN Rat(6, 10) ELSE RInt(1)]
  /\ Render(geometryType, distance, ligandStrength, orbitalScales')
  /\ UNCHANGED <<geometryType, distance, ligandStrength>>
  /\ RenderUnchanged

NextRender ==
  \/ \E g \in GeometryTypes : RenderSetGeometry(g)
  \/ \E percent \in CoarsePointerFractions : RenderSetDistance(percent)
  \/ \E i \in 1..MaxLigandIndex : RenderSetStrength(i)
  \/ \E percent \in ScalePointerFractions : RenderSetScale(percent)
  \/ RenderResetScales

SpecRender == InitRender /\ [][NextRender]_vars

(***************************************************************************)
(* Properties of the energy model                                          *)
(***************************************************************************)
\* distanceScaler = 0 exactly at distance 4 + 3/19 = 79/19
ScalerZeroDistance == Rat(79, 19)

\* d * (0.05 + (4 - d)/3 * 0.95) / d^3 stops decreasing at 1185/190
TurningDistance == Rat(1185, 190)

Recomputed == prev.energies # energies

\* C1 (as stated): octahedral, every distance > 0 and strength > 0:
\* eg > t2g and splitting = eg - t2g.
C1_Original ==
  geometryType = "octahedral" =>
    /\ RLt(energies.t2g, energies.eg)
    /\ energies.splitting = RSub(energies.eg, energies.t2g)

\* C1 (amended): octahedral, every distance in (0, 79/19) and strength > 0:
\* eg > t2g and, in exact arithmetic, splitting = eg - t2g.
C1_OctahedralOrdering ==
  (geometryType = "octahedral" /\ RLt(distance, ScalerZeroDistance)) =>
    /\ RLt(energies.t2g, energies.eg)
    /\ energies.splitting = RSub(energies.eg, energies.t2g)

C1_Witness ==
  /\ geometryType = "octahedral"
  /\ distance = RInt(4)
  /\ ligandStrength = RInt(10)
  /\ Recomputed
  /\ RLt(energies.t2g, energies.eg)

\* C2 (as stated): tetrahedral, every distance > 0 and strength > 0:
\* t2 > e and splitting = t2 - e.
C2_Original ==
  geometryType = "tetrahedral" =>
    /\ RLt(energies.e, energies.t2)
    /\ energies.splitting = RSub(energies.t2, energies.e)

\* C2 (amended): tetrahedral, every distance in (0, 79/19) and strength > 0:
\* t2 > e and, in exact arithmetic, splitting = t2 - e.
C2_TetrahedralOrdering ==
  (geometryType = "tetrahedral" /\ RLt(distance, ScalerZeroDistance)) =>
    /\ RLt(energies.e, energies.t2)
    /\ energies.splitting = RSub(energies.t2, energies.e)

C2_Witness ==
  /\ geometryType = "tetrahedral"
  /\ distance = Rat(1, 2)
  /\ ligandStrength = RInt(1)
  /\ Recomputed
  /\ RLt(energies.e, energies.t2)

\* C3 (as stated): square planar, every distance > 0 and strength > 0:
\* dx2y2 >= dxy >= dz2 >= dxz, dxz = dyz, splitting = dx2y2 - dxz.
C3_Original ==
  geometryType = "squarePlanar" =>
    /\ RLe(energies.dxy, energies.dx2y2)
    /\ RLe(energies.dz2, energies.dxy)
    /\ RLe(energies.dxz, energies.dz2)
    /\ energies.dxz = energies.dyz
    /\ energies.splitting = RSub(energies.dx2y2, energies.dxz)

\* C3 (amended): square planar, every distance in (0, 79/19] and strength > 0:
\* dx2y2 >= dxy >= dz2 >= dxz, dxz = dyz and, in exact arithmetic,
\* splitting = dx2y2 - dxz.
C3_SquarePlanarOrdering ==
  (geometryType = "squarePlanar" /\ RLe(distance, ScalerZeroDistance)) =>
    /\ RLe(energies.dxy, energies.dx2y2)
    /\ RLe(energies.dz2, energies.dxy)
    /\ RLe(energies.dxz, energies.dz2)
    /\ energies.dxz = energies.dyz
    /\ energies.splitting = RSub(energies.dx2y2, energies.dxz)

C3_Witness ==
  /\ geometryType = "squarePlanar"
  /\ distance = RInt(2)
  /\ Recomputed
  /\ RLt(energies.dxy, energies.dx2y2)
  /\ RLt(energies.dxz, energies.dz2)

SameButDistance ==
  /\ prev.geometryType = geometryType
  /\ prev.ligandStrength = ligandStrength
  /\ RLt(prev.distance, distance)

\* C4 (as stated): geometry and strength fixed, d1 < d2 (both > 0):
\* splitting(d1) > splitting(d2).
C4_Original ==
  SameButDistance => RLt(energies.splitting, prev.energies.splitting)

\* C4 (amended): geometry and strength fixed, 0 < d1 < d2 <= 1185/190:
\* splitting(d1) > splitting(d2).
C4_DistanceDecay ==
  (SameButDistance /\ RLe(distance, TurningDistance)) =>
    RLt(energies.splitting, prev.energies.splitting)

C4_Witness ==
  /\ SameButDistance
  /\ prev.distance = RInt(1)
  /\ distance = RInt(4)
  /\ RLt(energies.splitting, prev.energies.splitting)

SameButStrength ==
  /\ prev.geometryType = geometryType
  /\ prev.distance = distance
  /\ RLt(prev.ligandStrength, ligandStrength)

\* C5 (as stated): geometry and distance fixed, s1 < s2:
\* splitting(s1) < splitting(s2).
C5_Original ==
  SameButStrength => RLt(prev.energies.splitting, energies.splitting)

\* C5 (amended): geometry and distance in (0, 79/19) fixed, s1 < s2:
\* splitting(s1) < splitting(s2).
C5_StrengthScaling ==
  (SameButStrength /\ RLt(distance, ScalerZeroDistance)) =>
    RLt(prev.energies.splitting, energies.splitting)

C5_Witness ==
  /\ SameButStrength
  /\ prev.ligandStrength = RInt(1)
  /\ ligandStrength = RInt(10)
  /\ distance = RInt(3)
  /\ RLt(prev.energies.splitting, energies.splitting)

\* C6 (as stated): every geometry, distance > 0, strength > 0: splitting >= 0.
C6_Original == RLe(RZero, energies.splitting)

\* C6 (amended): every geometry, distance in (0, 79/19], strength > 0:
\* splitting >= 0.
C6_SplittingNonNegative ==
  RLe(distance, ScalerZeroDistance) => RLe(RZero, energies.splitting)

C6_Witness ==
  /\ distance = RInt(4)
  /\ geometryType = "tetrahedral"
  /\ Recomputed
  /\ RLt(RZero, energies.splitting)

(***************************************************************************)
(* Properties of the ligand positions                                      *)
(***************************************************************************)
DistanceSq == SRat(RMul(distance, distance))

\* C7: for every geometry and distance > 0 every ligand position has squared
\* norm distance^2, i.e. lies at exactly `distance` from the metal centre.
C7_LigandNorm ==
  \A i \in DOMAIN ligandPositions : NormSq(ligandPositions[i]) = DistanceSq

C7_Witness ==
  /\ geometryType = "tetrahedral"
  /\ distance = RInt(3)
  /\ Len(ligandPositions) = 4
  /\ NormSq(ligandPositions[4]) = SRat(RInt(9))

AxisPoints(axes) ==
  LET plus == SRat(distance)
      minus == SNeg(SRat(distance))
  IN  { [k \in 1..3 |-> IF k = ax THEN v ELSE SZero] :
          ax \in axes, v \in {plus, minus} }

PositionSet == { ligandPositions[i] : i \in DOMAIN ligandPositions }

\* C8: 6 positions for octahedral (+-distance on the x, y and z axes), 4 for
\* tetrahedral, 4 for square planar (+-distance on the x and y axes, z = 0);
\* the positions of one result are pairwise distinct.
C8_LigandCount ==
  /\ geometryType = "octahedral" =>
       /\ Len(ligandPositions) = 6
       /\ PositionSet = AxisPoints({1, 2, 3})
  /\ geometryType = "tetrahedral" => Len(ligandPositions) = 4
  /\ geometryType = "squarePlanar" =>
       /\ Len(ligandPositions) = 4
       /\ PositionSet = AxisPoints({1, 2})
       /\ \A i \in DOMAIN ligandPositions : ligandPositions[i][3] = SZero
  /\ \A i, j \in DOMAIN ligandPositions :
       i # j => ligandPositions[i] # ligandPositions[j]

C8_Witness ==
  /\ geometryType = "octahedral"
  /\ distance = Rat(21, 10)
  /\ Len(ligandPositions) = 6
  /\ ligandPositions[6] = <<SZero, SZero, SNeg(SRat(Rat(21, 10)))>>

\* C9: tetrahedral, any distance > 0: any two distinct ligand vectors have
\* dot product -(distance^2)/3 (angle arccos(-1/3)).
C9_TetrahedralAngle ==
  geometryType = "tetrahedral" =>
    \A i, j \in DOMAIN ligandPositions :
      i # j => Dot(ligandPositions[i], ligandPositions[j])
                 = SRat(RNeg(RDiv(RMul(distance, distance), RInt(3))))

C9_Witness ==
  /\ geometryType = "tetrahedral"
  /\ distance = RInt(3)
  /\ Dot(ligandPositions[1], ligandPositions[2]) = SRat(RInt(0 - 3))
  /\ Dot(ligandPositions[3], ligandPositions[4]) = SRat(RInt(0 - 3))

(***************************************************************************)
(* Properties of the diagram layout                                        *)
(***************************************************************************)
DiagramHeight == effectiveDiagramHeight(diagramSize)

BarsWithinPadding ==
  \A i \in DOMAIN bars :
    /\ RLe(topPaddingPx(DiagramHeight), bars[i].top)
    /\ RLe(bars[i].top, RSub(DiagramHeight, bottomPaddingPx(DiagramHeight)))

\* C10 (as stated): every geometry, every energy result, every container
\* height h > 0: each bar's vertical position lies within
\* [topPadding, h - bottomPadding].
C10_Original == BarsWithinPadding

\* C10 (amended): the same for every container height h >= 80.
C10_BarsWithinPadding ==
  RLe(RInt(80), DiagramHeight) => BarsWithinPadding

C10_Witness ==
  /\ geometryType = "octahedral"
  /\ distance = RInt(1)
  /\ ligandStrength = RInt(10)
  /\ diagramSize.height = RInt(80)
  /\ Len(bars) = 5
  /\ RLt(bars[4].top, bars[1].top)
  /\ RLt(topPaddingPx(DiagramHeight), bars[4].top)

\* C11: within one diagram a strictly higher energy gets a strictly smaller
\* vertical position, and equal energies get equal positions.
C11_BarsOrdered ==
  \A i, j \in DOMAIN bars :
    /\ RLt(bars[j].energy, bars[i].energy) => RLt(bars[i].top, bars[j].top)
    /\ bars[i].energy = bars[j].energy => bars[i].top = bars[j].top

C11_Witness ==
  /\ geometryType = "squarePlanar"
  /\ distance = RInt(1)
  /\ ligandStrength = RInt(10)
  /\ diagramSize.height = RInt(200)
  /\ RLt(bars[5].top, bars[4].top)
  /\ RLt(bars[4].top, bars[3].top)
  /\ RLt(bars[3].top, bars[2].top)
  /\ bars[2].top = bars[1].top

DiagramWidth == effectiveDiagramWidth(diagramSize)

BarCentre(i) == RAdd(RDiv(DiagramWidth, RInt(2)), bars[i].offset)

BarsWithinWidth ==
  \A i \in DOMAIN bars :
    /\ RLe(RZero, BarCentre(i))
    /\ RLe(BarCentre(i), DiagramWidth)

\* C12 (as stated): for every container width W > 0 and every slot 0..4 the
\* bar centre W/2 + (index - 2) * spacing lies within [0, W].
C12_Original == BarsWithinWidth

\* C12 (amended): the same for every container width W >= 192.
C12_BarsWithinWidth ==
  RLe(RInt(192), DiagramWidth) => BarsWithinWidth

C12_Witness ==
  /\ diagramSize.width = RInt(240)
  /\ Len(bars) = 5
  /\ bars[1].offset = RInt(0 - 96)
  /\ bars[5].offset = RInt(96)
  /\ BarCentre(1) = RInt(24)

(***************************************************************************)
(* Numerical properties of the energy model                                *)
(***************************************************************************)
Within(x, target, tol) == RLe(RAbs(RSub(x, target)), tol)

InitialInputs ==
  /\ geometryType = "octahedral"
  /\ distance = RInt(2)
  /\ ligandStrength = RInt(6)

\* C13: octahedral, distance 2.0, strength 6: eg, t2g and splitting are within
\* 0.001 of 0.564, 0.256 and 0.307; base = 0.75 and
\* distanceScaler = 0.05 + (4 - 2)/3 * 0.95.
C13_InitialEnergies ==
  InitialInputs =>
    /\ Within(energies.eg, Rat(564, 1000), Rat(1, 1000))
    /\ Within(energies.t2g, Rat(256, 1000), Rat(1, 1000))
    /\ Within(energies.splitting, Rat(307, 1000), Rat(1, 1000))
    /\ RMul(ligandStrength, RDiv(RInt(1), Pow3(distance))) = Rat(75, 100)
    /\ distanceScalerOf(distance)
         = RAdd(Rat(5, 100), RMul(Rat(2, 3), Rat(95, 100)))

C13_Witness ==
  /\ InitialInputs
  /\ Recomputed
  /\ energies.eg = Rat(56375, 100000)
  /\ energies.t2g = Rat(25625, 100000)
  /\ energies.splitting = Rat(3075, 10000)

InSliderRange(d) == RLe(RInt(1), d) /\ RLe(d, RInt(4))

DefaultStats ==
  [minEnergy |-> RZero, maxEnergy |-> RInt(3), range |-> RInt(3),
   baselinePadding |-> Rat(1, 5), topPadding |-> Rat(1, 2),
   energyScale |-> Rat(37, 10)]

\* C17: for a geometry outside the three enumerated values calculateSplitting
\* returns undefined; the diagram then draws no bars, uses the default energy
\* stats and displays a splitting value of 0.
C17_UndefinedHandled ==
  /\ geometryType \notin GeometryTypes =>
       /\ energies = Undefined
       /\ bars = NoBars
       /\ energyStats(energies) = DefaultStats
       /\ splittingValue(energies) = RZero
  /\ geometryType \in GeometryTypes =>
       /\ energies # Undefined
       /\ Len(bars) = 5
       /\ splittingValue(energies) = energies.splitting

C17_Witness ==
  /\ geometryType = "linear"
  /\ distance = RInt(2)
  /\ diagramSize.height = RInt(200)
  /\ energies = Undefined
  /\ bars = NoBars

(***************************************************************************)
(* The README's physics model                                              *)
(***************************************************************************)
ReadmeBase == RDiv(ligandStrength, Pow3(distance))

\* C15 (as stated): calculateSplitting implements the README's model:
\* base = strength / distance^3; octahedral eg = 0.6 base, t2g = -0.4 base,
\* splitting = base; square planar dx2y2 = 1.8 base, dz2 = base,
\* dxy = dxz = dyz = -0.3 base, splitting = 2.1 base.
C15_ReadmeModel ==
  /\ geometryType = "octahedral" =>
       /\ energies.eg = RMul(ReadmeBase, Rat(6, 10))
       /\ energies.t2g = RMul(ReadmeBase, Rat(0 - 4, 10))
       /\ energies.splitting = ReadmeBase
  /\ geometryType = "squarePlanar" =>
       /\ energies.dx2y2 = RMul(ReadmeBase, Rat(18, 10))
       /\ energies.dz2 = ReadmeBase
       /\ energies.dxy = RMul(ReadmeBase, Rat(0 - 3, 10))
       /\ energies.dxz = RMul(ReadmeBase, Rat(0 - 3, 10))
       /\ energies.dyz = RMul(ReadmeBase, Rat(0 - 3, 10))
       /\ energies.splitting = RMul(ReadmeBase, Rat(21, 10))

(***************************************************************************)
(* The control state of App                                                *)
(***************************************************************************)
OnStepGrid(d) == RMul(d, RInt(10)).d = 1

CatalogStrength(st) ==
  /\ st.d = 1
  /\ st.n \in 1..10
  /\ \E i \in DOMAIN ligands : ligands[i].strength = st.n

\* C14: in every state reachable from the initial state (distance 2.0,
\* ligandStrength 6) through the controls, distance lies in [1.0, 4.0] on
\* the 0.1 grid and ligandStrength is an integer in 1..10 that is the
\* strength of a catalog ligand.
C14_ControlRanges ==
  /\ InSliderRange(distance)
  /\ OnStepGrid(distance)
  /\ CatalogStrength(ligandStrength)

C14_Witness ==
  /\ distance = Rat(37, 10)
  /\ ligandStrength = RInt(9)
  /\ geometryType = "tetrahedral"
  /\ ~isDarkMode
  /\ C14_ControlRanges

RECURSIVE AllNonNegative(_)
AllNonNegative(q) ==
  IF q = <<>> THEN TRUE ELSE RLe(RZero, q[1]) /\ AllNonNegative(Tail(q))

\* C16: for every geometry, every distance the slider can produce and every
\* catalog strength, every orbital energy returned by calculateSplitting is
\* non-negative.
C16_EnergiesNonNegative ==
  AllNonNegative(energyValues(energies))

C16_Witness ==
  /\ geometryType = "squarePlanar"
  /\ distance = RInt(4)
  /\ ligandStrength = RInt(1)
  /\ RLt(RZero, energies.dxz)
  /\ RLt(energies.dxz, Rat(1, 1000))

(***************************************************************************)
(* The orbital surface                                                     *)
(***************************************************************************)
Origin == <<SZero, SZero, SZero>>

\* C18: for an orbital type outside dz2, dx2y2, dxy, dxz, dyz the amplitude
\* is 0 at every grid point, so every generated vertex is the origin,
\* whatever the scale.
C18_UnknownTypeOrigin ==
  orbitalType \notin OrbitalKeys =>
    \A p \in DOMAIN surface :
      /\ amplitude(orbitalType, p[1], RMul(RInt(2), p[2])) = SZero
      /\ surface[p] = Origin

C18_Witness ==
  /\ orbitalType = "fz3"
  /\ orbitalScale = RInt(2)
  /\ surface[<<Rat(1, 2), Rat(1, 6)>>] = Origin

\* the squared radius |3 cos^2(theta) - 1|^2 * scale^2 at u
Dz2RadiusSq(u) ==
  LET f == SAdd(SMul(SRat(RInt(3)), SMul(CosPi(u), CosPi(u))), SRat(RInt(0 - 1)))
  IN  SMul(SMul(f, f), SRat(RMul(orbitalScale, orbitalScale)))

\* C19: for dz2 and any scale, grid points with equal theta and different
\* phi have equal radius |3 cos^2(theta) - 1| * scale.
C19_Dz2Symmetric ==
  orbitalType = "dz2" =>
    \A u \in GridPoints : \A v1, v2 \in GridPoints :
      /\ NormSq(surface[<<u, v1>>]) = NormSq(surface[<<u, v2>>])
      /\ NormSq(surface[<<u, v1>>]) = Dz2RadiusSq(u)

C19_Witness ==
  /\ orbitalType = "dz2"
  /\ orbitalScale = Rat(6, 10)
  /\ surface[<<Rat(1, 3), Rat(1, 6)>>] # surface[<<Rat(1, 3), Rat(1, 2)>>]
  /\ NormSq(surface[<<Rat(1, 3), Rat(1, 6)>>]) = SRat(Rat(9, 400))
  /\ NormSq(surface[<<Rat(1, 3), Rat(1, 2)>>]) = SRat(Rat(9, 400))

(***************************************************************************)
(* Horizontal slots of the bars                                            *)
(***************************************************************************)
\* the labels of the rendered bars, left to right
LabelsBySlot(bs) ==
  [k \in 0..4 |-> bs[CHOOSE i \in DOMAIN bs : bs[i].index = k].label]

\* C21 (as stated): a label keeps its slot index whatever diagram is
\* rendered: no step changes the slot of dxy, dxz, dyz, dz2 or dx2y2.
C21_Original ==
  [][\A o \in OrbitalKeys :
       LET before == CHOOSE i \in DOMAIN bars : bars[i].label = o
           after  == CHOOSE i \in DOMAIN bars' : bars'[i].label = o
       IN  bars[before].index = bars'[after].index]_vars

SlotOrder(g) ==
  IF g = "octahedral" THEN [k \in 0..4 |-> <<"dxy", "dxz", "dyz", "dz2", "dx2y2">>[k + 1]]
  ELSE IF g = "tetrahedral" THEN [k \in 0..4 |-> <<"dz2", "dx2y2", "dxy", "dxz", "dyz">>[k + 1]]
  ELSE [k \in 0..4 |-> <<"dxz", "dyz", "dz2", "dxy", "dx2y2">>[k + 1]]

\* C21 (amended): each diagram has its own fixed left-to-right order of the
\* five labels, independent of distance, ligand strength and container size:
\* octahedral dxy, dxz, dyz, dz2, dx2-y2; tetrahedral dz2, dx2-y2, dxy, dxz,
\* dyz; square planar dxz, dyz, dz2, dxy, dx2-y2.
C21_SlotOrderPerGeometry ==
  /\ { bars[i].label : i \in DOMAIN bars } = OrbitalKeys
  /\ { bars[i].index : i \in DOMAIN bars } = 0..4
  /\ LabelsBySlot(bars) = SlotOrder(geometryType)

C21_Witness ==
  /\ geometryType = "tetrahedral"
  /\ diagramSize.width = RInt(360)
  /\ LabelsBySlot(bars)[0] = "dz2"
  /\ LabelsBySlot(bars)[2] = "dxy"

\* the distance between the centres of the bars in slots k and k + 1
SpacingAt(k) ==
  RSub(bars[CHOOSE i \in DOMAIN bars : bars[i].index = k + 1].offset,
       bars[CHOOSE i \in DOMAIN bars : bars[i].index = k].offset)

\* C22: in every diagram and for every container width the five bars use
\* pairwise distinct slots 0..4, adjacent slot centres are between 36 and 90
\* pixels apart, and every bar is strictly narrower than that spacing.
C22_NoOverlap ==
  /\ Len(bars) = 5
  /\ \A i, j \in DOMAIN bars : i # j => bars[i].index # bars[j].index
  /\ \A i \in DOMAIN bars : bars[i].index \in 0..4
  /\ \A k \in 0..3 :
       /\ RLe(RInt(36), SpacingAt(k))
       /\ RLe(SpacingAt(k), RInt(90))
       /\ \A i \in DOMAIN bars : RLt(bars[i].barWidth, SpacingAt(k))

C22_Witness ==
  /\ diagramSize.width = RInt(60)
  /\ geometryType = "squarePlanar"
  /\ SpacingAt(0) = RInt(48)
  /\ bars[1].barWidth = RInt(30)

(***************************************************************************)
(* The geometry selector                                                   *)
(***************************************************************************)
ResultShape(g) ==
  IF g = "octahedral" THEN {"eg", "t2g", "splitting"}
  ELSE IF g = "tetrahedral" THEN {"t2", "e", "splitting"}
  ELSE {"dx2y2", "dxy", "dz2", "dxz", "dyz", "splitting"}

\* C25: in every state reachable through the geometry selector from the
\* initial 'octahedral', geometryType is one of the three enumerated values
\* and calculateSplitting returns a defined result of that geometry's shape.
C25_GeometryDefined ==
  /\ geometryType \in GeometryTypes
  /\ energies # Undefined
  /\ DOMAIN energies = ResultShape(geometryType)
  /\ typedGeometry(energies) = geometryType

C25_Witness ==
  /\ geometryType = "tetrahedral"
  /\ distance = Rat(13, 10)
  /\ energies # Undefined
  /\ DOMAIN energies = {"t2", "e", "splitting"}

(***************************************************************************)
(* The orbital controls                                                    *)
(***************************************************************************)
ScalesInRange ==
  \A o \in OrbitalKeys :
    /\ RLe(Rat(2, 10), orbitalScales[o])
    /\ RLe(orbitalScales[o], RInt(2))
    /\ RLt(RZero, passedScale(distance, orbitalScales, o))

\* C24: every per-orbital scale stays within [0.2, 2.0]; it starts at
\* dz2 = 0.6, others 1.0, is changed only by the scale sliders and by Reset
\* Scales, which restores exactly the initial values; and the scale passed to
\* the surface generator, max(0.5, 1.2 - 0.2 distance) * orbitalScales[type],
\* is strictly positive.
C24_ScalesInRange ==
  /\ []ScalesInRange
  /\ [][/\ ResetScales => orbitalScales' = InitialScales
        /\ orbitalScales' # orbitalScales =>
             \/ ResetScales
             \/ \E o \in OrbitalKeys : \E percent \in ScalePointerFractions :
                  handleScaleChange(o, percent)]_vars

C24_Witness ==
  /\ orbitalScales["dz2"] = RInt(2)
  /\ orbitalScales["dxy"] = Rat(2, 10)
  /\ distance = RInt(4)
  /\ passedScale(distance, orbitalScales, "dxy") = Rat(1, 10)
  /\ passedScale(distance, orbitalScales, "dz2") = RInt(1)

VisibleCountRight ==
  /\ visibleCount(orbitalStates) = Cardinality({ o \in OrbitalKeys : orbitalStates[o] })
  /\ visibleCount(orbitalStates) \in 0..5
  /\ \A o \in OrbitalKeys :
       toggleUpdater(toggleUpdater(orbitalStates, o), o) = orbitalStates

FlipsOnly(o) ==
  /\ orbitalStates'[o] = ~orbitalStates[o]
  /\ \A k \in OrbitalKeys \ {o} : orbitalStates'[k] = orbitalStates[k]
  /\ UNCHANGED <<orbitalScales, geometryType, distance, ligandStrength>>

\* C30: toggling one orbital (chip or switch) flips exactly that orbital's
\* visibility and leaves the other four, the five scales and geometry,
\* distance and ligandStrength unchanged; toggling it twice restores the
\* state; the visible count is the number of true entries, between 0 and 5,
\* and is 5 after Show All and 0 after Hide All.
C30_ToggleOne ==
  /\ []VisibleCountRight
  /\ [][/\ \A o \in OrbitalKeys :
             (handleOrbitalToggle(o) \/ filterChipClick(o)) => FlipsOnly(o)
        /\ ShowAll => visibleCount(orbitalStates') = 5
        /\ HideAll => visibleCount(orbitalStates') = 0]_vars

C30_Witness ==
  /\ visibleCount(orbitalStates) = 2
  /\ orbitalStates["dxy"]
  /\ orbitalStates["dz2"]
  /\ orbitalScales["dxy"] = RInt(2)
  /\ toggleUpdater(orbitalStates, "dxy")["dz2"]
  /\ ~toggleUpdater(orbitalStates, "dxy")["dxy"]

(***************************************************************************)
(* The App shell                                                           *)
(***************************************************************************)
\* C26: when the viewport stops being mobile while the drawer is open, the
\* next effect run closes the drawer; while the viewport is not mobile no
\* operation opens it; in every settled state an open drawer implies a
\* mobile viewport.
C26_DrawerFollowsViewport ==
  /\ []((mounted /\ ~effectPending) => (isControlsDrawerOpen => isMobile))
  /\ (~isMobile /\ isControlsDrawerOpen) ~> ~isControlsDrawerOpen
  /\ [][/\ ~isMobile => (isControlsDrawerOpen' => isControlsDrawerOpen)
        /\ (~isMobile /\ isControlsDrawerOpen /\ DrawerEffect) => ~isControlsDrawerOpen']_vars

C26_Witness ==
  /\ ~isMobile
  /\ isControlsDrawerOpen
  /\ effectPending
  /\ mounted

RatioInRange ==
  /\ RLe(Rat(12, 100), mobileSplitRatio)
  /\ RLe(mobileSplitRatio, Rat(75, 100))
  /\ splitResizeStateRef.containerHeight # RZero
  /\ RLt(RZero, splitResizeStateRef.containerHeight)

Clamp(x, lo, hi) == RMin(RMax(x, lo), hi)

\* C27: mobileSplitRatio stays within [0.12, 0.75]: it starts at 0.55, every
\* pointermove of a resize sets it to clamp(startRatio + (clientY - startY) /
\* containerHeight, 0.12, 0.75) with containerHeight never 0, and a move
\* with clientY = startY sets it back to startRatio.
C27_RatioClamped ==
  /\ []RatioInRange
  /\ [][\A y \in PointerYs : handleSplitResizeMove(y) =>
          /\ mobileSplitRatio' =
               Clamp(RAdd(splitResizeStateRef.startRatio,
                          RDiv(RSub(y, splitResizeStateRef.startY),
                               splitResizeStateRef.containerHeight)),
                     Rat(12, 100), Rat(75, 100))
          /\ y = splitResizeStateRef.startY =>
               mobileSplitRatio' = splitResizeStateRef.startRatio]_vars

C27_Witness ==
  /\ isSplitResizing
  /\ splitResizeStateRef.startRatio = Rat(55, 100)
  /\ splitResizeStateRef.containerHeight = RInt(400)
  /\ splitResizeStateRef.startY = RInt(200)
  /\ mobileSplitRatio = Rat(12, 100)

\* C28: while the App is mounted isSplitResizing holds exactly when the
\* window pointermove and pointerup listeners are registered; a pointerdown
\* in the mobile layout registers both and sets it, a pointerdown outside the
\* mobile layout changes nothing, the next pointerup removes both and clears
\* it, and without the pointermove listener mobileSplitRatio never changes.
C28_ResizingIffListening ==
  /\ [](mounted =>
          /\ windowListeners \in {{}, BothListeners}
          /\ isSplitResizing <=> windowListeners = BothListeners)
  /\ [][/\ \A y \in PointerYs : \A h \in ContainerHeights :
             handleSplitResizeStart(y, h) =>
               IF isMobile
               THEN isSplitResizing' /\ windowListeners' = BothListeners
               ELSE UNCHANGED vars
        /\ stopSplitResize => (~isSplitResizing' /\ windowListeners' = {})
        /\ "pointermove" \notin windowListeners =>
             mobileSplitRatio' = mobileSplitRatio]_vars

C28_Witness ==
  /\ mounted
  /\ ~isSplitResizing
  /\ windowListeners = {}
  /\ mobileSplitRatio = Rat(75, 100)
  /\ splitResizeStateRef.startY = RInt(0)

\* C29: once no resize is in progress, document.body.style.userSelect equals
\* the value it had before the first resize began.
C29_UserSelectRestored ==
  (mounted /\ ~isSplitResizing) => bodyUserSelect = prev.bodyUserSelect

(***************************************************************************)
(* Memoized render values                                                  *)
(***************************************************************************)
\* C23: after any sequence of changes to geometry, distance, ligandStrength
\* and orbital scales the memoized ligand positions, orbital surface and
\* energy result equal a fresh computation from the current state.
C23_MemosFresh ==
  /\ energies = calculateSplitting(geometryType, distance, ligandStrength)
  /\ ligandPositions = getLigandPositions(geometryType, distance)
  /\ orbitalScale = passedScale(distance, orbitalScales, orbitalType)
  /\ surface = makeDOrbitalGeometry(orbitalType, orbitalScale)

C23_Witness ==
  /\ geometryType = "tetrahedral"
  /\ distance = RInt(4)
  /\ ligandStrength = RInt(2)
  /\ orbitalType = "dxy"
  /\ orbitalScales["dxy"] = RInt(2)
  /\ memoDeps.surface = <<"dxy", RInt(1)>>
  /\ surface = makeDOrbitalGeometry("dxy", RInt(1))
  /\ Len(ligandPositions) = 4

====
